---------------------------- MODULE Spec2Model ----------------------------
(***************************************************************************)
(* A model of the surface-hopping trajectory engine of fssh:               *)
(*   src/fssh/even_sampled_sh.py  SpawnStack, EvenSamplingTrajectory       *)
(*   src/fssh/trajectory_sh.py    TrajectorySH                             *)
(*                                                                         *)
(* Real numbers are exact rationals <<numerator, denominator>> in lowest   *)
(* terms with a positive denominator, so the results are those of the      *)
(* arithmetic the code writes down, without floating-point rounding.       *)
(* A Python value that may be None is a sequence of length 0 (None) or 1.  *)
(* Python lists are 0-based: element i of a list l is l[i + 1] here.       *)
(***************************************************************************)
EXTENDS Integers, Sequences, FiniteSets, TLC

(***************************************************************************)
(* Bounds of the model.                                                    *)
(***************************************************************************)
MaxSamples == 4
MaxDepth == 2
\* the number of electronic states of the model
NStates == 3
\* the max_steps option of the trajectories the driver constructs
MaxSteps == 1
\* the horizon: no trajectory is advanced beyond this step count
StepCap == 2
\* the number of trajectories the driver takes from the queue
MaxRun == 1

(***************************************************************************)
(* The({ body : x \in { e } }) is body with x bound to the value of e: a   *)
(* local variable of the code.                                             *)
(***************************************************************************)
The(S) == CHOOSE y \in S : TRUE

(***************************************************************************)
(* Exact rational arithmetic.                                              *)
(***************************************************************************)
Abs(x) == IF x < 0 THEN -x ELSE x

RECURSIVE Gcd(_, _)
Gcd(a, b) == IF b = 0 THEN a ELSE Gcd(b, a % b)

Rat(n, d) ==
    LET g == Gcd(Abs(n), Abs(d))
        s == IF d < 0 THEN -1 ELSE 1
    IN  << (s * n) \div g, (s * d) \div g >>

RInt(n) == << n, 1 >>
RZero == RInt(0)
ROne == RInt(1)
RAdd(x, y) == Rat(x[1] * y[2] + y[1] * x[2], x[2] * y[2])
RSub(x, y) == Rat(x[1] * y[2] - y[1] * x[2], x[2] * y[2])
RMul(x, y) == Rat(x[1] * y[1], x[2] * y[2])
RDiv(x, y) == Rat(x[1] * y[2], x[2] * y[1])
RNeg(x) == << -x[1], x[2] >>
RLt(x, y) == x[1] * y[2] < y[1] * x[2]
RLe(x, y) == x[1] * y[2] <= y[1] * x[2]
RAbs(x) == << Abs(x[1]), x[2] >>

RECURSIVE RSum(_)
RSum(s) == IF s = << >> THEN RZero ELSE RAdd(Head(s), RSum(Tail(s)))

(***************************************************************************)
(* Optional values.                                                        *)
(***************************************************************************)
None == << >>
Some(x) == << x >>

(***************************************************************************)
(* numpy helpers used by SpawnStack.build_simple.                          *)
(***************************************************************************)
\* np.linspace(start, stop, num, endpoint): num points start + i*step, where
\* step = (stop - start) / (num - 1) with the endpoint and / num without it.
linspace(start, stop, num, endpoint) ==
    The({ [ i \in 1..num |-> RAdd(start, RMul(RInt(i - 1), step)) ]
        : step \in { RDiv(RSub(stop, start), RInt(IF endpoint THEN num - 1 ELSE num)) } })

\* np.sort: ascending order (insertion sort)
RECURSIVE Insert(_, _)
Insert(x, s) ==
    IF s = << >> THEN << x >>
    ELSE IF RLe(x, Head(s)) THEN << x >> \o s
    ELSE << Head(s) >> \o Insert(x, Tail(s))

RECURSIVE np_sort(_)
np_sort(s) == IF s = << >> THEN << >> ELSE Insert(Head(s), np_sort(Tail(s)))

(***************************************************************************)
(* SpawnStack (even_sampled_sh.py).  A forest is a sequence of nodes       *)
(* [zeta, dw, children], children being None or Some(forest).              *)
(***************************************************************************)
SpawnStack(sample_stack, weight) ==
    [ sample_stack |-> sample_stack, weight |-> weight,
      izeta |-> None, zeta |-> None ]

build_samples(nsamples, include_first) ==
    np_sort(linspace(ROne, RZero, nsamples, include_first))

RECURSIVE build_forest(_, _, _)
build_forest(samples, dw, d) ==
    [ i \in 1..Len(samples) |->
        [ zeta |-> samples[i], dw |-> dw,
          children |-> IF d <= 1 THEN None
                       ELSE Some(build_forest(samples, dw, d - 1)) ] ]

build_simple(nsamples, sample_depth, include_first) ==
    The({
    The({
        SpawnStack(Some(build_forest(samples, dw, sample_depth)), ROne)
        : dw \in { RSub(samples[2], samples[1]) } })
        : samples \in { build_samples(nsamples, include_first) } })

\* next_zeta with line 52 in the place of line 51: past the last threshold
\* of the level zeta becomes None and nothing is raised
next_zeta_returning_none(self, u) ==
    IF self.sample_stack # None
    THEN LET iz == IF self.izeta = None THEN 0 ELSE self.izeta[1] + 1
             forest == self.sample_stack[1]
         IN  IF iz < Len(forest)
             THEN [ self |-> [ self EXCEPT !.izeta = Some(iz),
                                           !.zeta = Some(forest[iz + 1].zeta) ],
                    raised |-> FALSE ]
             ELSE [ self |-> [ self EXCEPT !.izeta = Some(iz), !.zeta = None ],
                    raised |-> FALSE ]
    ELSE [ self |-> [ self EXCEPT !.zeta = Some(u) ], raised |-> FALSE ]

\* next_zeta: the stack after the call and whether the call raised; u is
\* the value random_state.uniform() returns, used only without a tree.
next_zeta(self, u) ==
    IF self.sample_stack # None
    THEN LET iz == IF self.izeta = None THEN 0 ELSE self.izeta[1] + 1
             forest == self.sample_stack[1]
         IN  IF iz < Len(forest)
             THEN [ self |-> [ self EXCEPT !.izeta = Some(iz),
                                           !.zeta = Some(forest[iz + 1].zeta) ],
                    raised |-> FALSE ]
             ELSE [ self |-> [ self EXCEPT !.izeta = Some(iz) ],
                    raised |-> TRUE ]
    ELSE [ self |-> [ self EXCEPT !.zeta = Some(u) ], raised |-> FALSE ]

\* truth value of "if self.sample_stack": neither None nor an empty list
Truthy(opt) == opt # None /\ opt[1] # << >>

\* spawn without the product of line 62: the weight is handed down as it is
spawn_same_weight(self) ==
    IF Truthy(self.sample_stack)
    THEN IF self.izeta = None \/ self.izeta[1] >= Len(self.sample_stack[1])
         THEN [ raised |-> TRUE, stack |-> SpawnStack(None, self.weight) ]
         ELSE [ raised |-> FALSE,
                stack |-> SpawnStack(self.sample_stack[1][self.izeta[1] + 1].children,
                                     self.weight) ]
    ELSE [ raised |-> FALSE, stack |-> SpawnStack(None, self.weight) ]

\* spawn with the product of line 62 taken only for a node that has
\* children
spawn_leaf_keeps_weight(self) ==
    IF Truthy(self.sample_stack)
    THEN IF self.izeta = None \/ self.izeta[1] >= Len(self.sample_stack[1])
         THEN [ raised |-> TRUE, stack |-> SpawnStack(None, self.weight) ]
         ELSE LET samp == self.sample_stack[1][self.izeta[1] + 1]
              IN  [ raised |-> FALSE,
                    stack |-> SpawnStack(samp.children,
                                         IF samp.children = None THEN self.weight
                                         ELSE RMul(self.weight, samp.dw)) ]
    ELSE [ raised |-> FALSE, stack |-> SpawnStack(None, self.weight) ]

\* spawn: the new stack, or raised when the cursor is None (TypeError) or
\* beyond the level (IndexError)
spawn(self) ==
    IF Truthy(self.sample_stack)
    THEN IF self.izeta = None \/ self.izeta[1] >= Len(self.sample_stack[1])
         THEN [ raised |-> TRUE, stack |-> SpawnStack(None, self.weight) ]
         ELSE LET samp == self.sample_stack[1][self.izeta[1] + 1]
              IN  [ raised |-> FALSE,
                    stack |-> SpawnStack(samp.children,
                                         RMul(self.weight, samp.dw)) ]
    ELSE [ raised |-> FALSE, stack |-> SpawnStack(None, self.weight) ]

(***************************************************************************)
(* Vectors of rationals (numpy arrays of shape [ndim]) and square roots.   *)
(***************************************************************************)
VZip(Op(_, _), a, b) == [ i \in 1..Len(a) |-> Op(a[i], b[i]) ]
VAdd(a, b) == VZip(RAdd, a, b)
VSub(a, b) == VZip(RSub, a, b)
VMul(a, b) == VZip(RMul, a, b)
VDiv(a, b) == VZip(RDiv, a, b)
VScale(c, a) == [ i \in 1..Len(a) |-> RMul(c, a[i]) ]
VZero(a) == [ i \in 1..Len(a) |-> RZero ]
\* np.dot(a, b)
np_dot(a, b) == RSum(VMul(a, b))
\* np.einsum('m,m,m', a, b, c)
einsum_mmm(a, b, c) == RSum(VMul(a, VMul(b, c)))
\* np.all(a < b) for two vectors
AllLess(a, b) == \A i \in 1..Len(a) : RLt(a[i], b[i])

IsSquare(n) == n >= 0 /\ \E k \in 0..n : k * k = n
\* the square root of a perfect square (no value is chosen for another number)
ISqrt(n) == CHOOSE k \in 0..n : k * k = n
\* the rationals whose square root is a rational
RIsSquare(x) == IsSquare(x[1]) /\ IsSquare(x[2])
RSqrt(x) == << ISqrt(x[1]), ISqrt(x[2]) >>
RHalf == Rat(1, 2)

(***************************************************************************)
(* Program constants.                                                      *)
(***************************************************************************)
\* options.get('max_steps', 100000)
DefaultMaxSteps == 100000
\* options.get('max_time', 1e25): a time no run of the model reaches, scaled
\* to the integers of the model checker
DefaultMaxTime == 1000000

(***************************************************************************)
(* TrajectorySH (trajectory_sh.py).                                        *)
(*                                                                         *)
(* An electronics object is a record [hamiltonian, force,                  *)
(* derivative_coupling] held in the heap elec (a sequence; a trajectory    *)
(* holds an index, 0 for None): hamiltonian[i] is the diagonal entry       *)
(* hamiltonian[i, i], force[i] and derivative_coupling[i][j] are vectors.  *)
(* The density matrix is an abstract value: the number of half steps of    *)
(* propagation applied to the ground-state matrix (the matrix exponential  *)
(* of propagate_electronics is not computed).                              *)
(***************************************************************************)
\* the options dictionary: every key None (absent) or Some(value)
NoOptions ==
    [ last_velocity |-> None, state0 |-> None, duration |-> None,
      t0 |-> None, previous_steps |-> None, trace_every |-> None,
      dt |-> None, outcome_type |-> None, seed |-> None,
      electronics |-> None, weight |-> None, restart |-> None,
      bounds |-> None, max_steps |-> None, max_time |-> None,
      spawn_stack |-> None ]

\* options.get(key, default) for an optional value
Get(opt, default) == IF opt = None THEN default ELSE opt[1]

\* Trace(): the tracer a trajectory writes to
Trace == [ data |-> << >>, hops |-> << >>, weight |-> ROne ]

\* duration_initialize(options)
duration_initialize(options) ==
    [ found_box |-> FALSE,
      box_bounds |-> IF options.bounds # None /\ options.bounds[1] # << >>
                     THEN Some(options.bounds[1]) ELSE None,
      max_steps |-> Get(options.max_steps, DefaultMaxSteps),
      max_time |-> Get(options.max_time, RInt(DefaultMaxTime)) ]

\* a value of an attribute that was never assigned
Unset == -1

\* TrajectorySH.__init__: [raised, obj].  rho0 is [scalar, val]: a scalar
\* (string) or a density matrix.  model is [mass, nstates].
TrajectorySH_init(model, x0, p0, rho0, tracer, queue, options) ==
    LET velocity == VDiv(p0, model.mass)
        ground == rho0.scalar /\ rho0.val = "ground"
        \* a scalar other than "ground": the Exception is built, not raised
        badMatrix == ~rho0.scalar /\ options.state0 = None
        dur == IF options.duration # None THEN options.duration[1]
               ELSE duration_initialize(options)
    IN  [ raised |-> badMatrix \/ options.dt = None,
          obj |->
            [ cls |-> "TrajectorySH",
              nstates |-> model.nstates,
              tracer |-> Get(tracer, Trace),
              queue |-> queue,
              mass |-> model.mass,
              position |-> x0,
              velocity |-> velocity,
              last_velocity |-> Get(options.last_velocity, VZero(velocity)),
              rho |-> IF rho0.scalar
                      THEN (IF ground THEN 0 ELSE Unset)
                      ELSE rho0.val,
              state |-> IF rho0.scalar
                        THEN (IF ground THEN 0 ELSE Unset)
                        ELSE Get(options.state0, Unset),
              duration |-> dur,
              time |-> Get(options.t0, RZero),
              nsteps |-> Get(options.previous_steps, 0),
              trace_every |-> Get(options.trace_every, 1),
              dt |-> Get(options.dt, RZero),
              outcome_type |-> Get(options.outcome_type, "state"),
              electronics |-> Get(options.electronics, 0),
              hopping |-> [ i \in 0..(model.nstates - 1) |-> RZero ],
              weight |-> Get(options.weight, ROne),
              restart |-> Get(options.restart, FALSE),
              prob_cum |-> RZero,
              zeta |-> RZero,
              spawn_stack |-> SpawnStack(None, ROne),
              pc |-> "new",
              hop_targets |-> << >> ] ]

\* update_weight(weight)
update_weight(self, weight) ==
    [ self EXCEPT !.weight = weight, !.tracer.weight = weight ]

\* currently_interacting() with the box taken closed: a position on the
\* boundary counts as inside
currently_interacting_closed(self) ==
    IF self.duration.box_bounds = None THEN FALSE
    ELSE \A i \in 1..Len(self.position) :
            /\ RLe(self.duration.box_bounds[1][1][i], self.position[i])
            /\ RLe(self.position[i], self.duration.box_bounds[1][2][i])

\* currently_interacting()
currently_interacting(self) ==
    IF self.duration.box_bounds = None THEN FALSE
    ELSE /\ AllLess(self.duration.box_bounds[1][1], self.position)
         /\ AllLess(self.position, self.duration.box_bounds[1][2])

\* continue_simulating() without the max_time test of line 136
continue_simulating_steps_only(self) ==
    IF self.nsteps > self.duration.max_steps
    THEN [ ret |-> FALSE, self |-> self ]
    ELSE IF self.duration.found_box
    THEN [ ret |-> currently_interacting(self), self |-> self ]
    ELSE [ ret |-> TRUE,
           self |-> IF currently_interacting(self)
                    THEN [ self EXCEPT !.duration.found_box = TRUE ]
                    ELSE self ]

\* continue_simulating(): [ret, self]
continue_simulating(self) ==
    IF self.nsteps > self.duration.max_steps
       \/ RLt(self.duration.max_time, self.time)
    THEN [ ret |-> FALSE, self |-> self ]
    ELSE IF self.duration.found_box
    THEN [ ret |-> currently_interacting(self), self |-> self ]
    ELSE [ ret |-> TRUE,
           self |-> IF currently_interacting(self)
                    THEN [ self EXCEPT !.duration.found_box = TRUE ]
                    ELSE self ]

\* kinetic_energy()
kinetic_energy(self) ==
    RMul(RHalf, einsum_mmm(self.mass, self.velocity, self.velocity))

\* potential_energy(electronics): es is the electronics object
potential_energy(self, es) == es.hamiltonian[self.state]

\* total_energy(electronics)
total_energy(self, es) == RAdd(potential_energy(self, es), kinetic_energy(self))

\* snapshot(): heap is the sequence of electronics objects
snapshot(self, heap) ==
    [ time |-> self.time,
      position |-> self.position,
      momentum |-> VMul(self.mass, self.velocity),
      potential |-> potential_energy(self, heap[self.electronics]),
      kinetic |-> kinetic_energy(self),
      energy |-> total_energy(self, heap[self.electronics]),
      density_matrix |-> self.rho,
      active |-> self.state,
      electronics |-> self.electronics,
      hopping |-> self.hopping ]

\* tracer.collect(snapshot) and tracer.hop(time, from, to, zeta, prob)
collect(tracer, snap) == [ tracer EXCEPT !.data = Append(@, snap) ]
hop(tracer, time, hop_from, hop_to, zeta, prob) ==
    [ tracer EXCEPT !.hops = Append(@, [ time |-> time, from |-> hop_from,
                                         to |-> hop_to, zeta |-> zeta,
                                         prob |-> prob ]) ]

\* trace(force)
trace(self, heap, force) ==
    IF force \/ (self.nsteps % self.trace_every) = 0
    THEN [ self EXCEPT !.tracer = collect(@, snapshot(self, heap)) ]
    ELSE self

\* force(electronics)
force(self, es) == es.force[self.state]

\* 1.0 / self.mass
M_inv(mass) == [ i \in 1..Len(mass) |-> RDiv(ROne, mass[i]) ]

\* direction / np.linalg.norm(direction)
normalized(direction) ==
    VScale(RDiv(ROne, RSqrt(np_dot(direction, direction))), direction)

\* mode_kinetic_energy(direction): [nan, val]; the norm of a zero direction
\* is 0 and the division by it gives nan
mode_kinetic_energy(self, direction) ==
    IF np_dot(direction, direction) = RZero
    THEN [ nan |-> TRUE, val |-> RZero ]
    ELSE The({
         The({
         The({
            [ nan |-> FALSE,
              val |-> RMul(RHalf, einsum_mmm(M_inv(self.mass), component,
                                             component)) ]
        : component \in { VScale(np_dot(u, momentum), u) } })
        : momentum \in { VMul(self.velocity, self.mass) } })
        : u \in { normalized(direction) } })

\* direction_of_rescale(source, target): a view into the derivative coupling
\* of self.electronics (the electronics argument is not passed on by the
\* caller), given as the place [e, source, target] of the heap
direction_of_rescale(self, source, target) ==
    [ e |-> self.electronics, source |-> source, target |-> target ]

Deref(heap, ref) == heap[ref.e].derivative_coupling[ref.source][ref.target]

discriminant(a, b, c) == RSub(RMul(b, b), RMul(RInt(4), RMul(a, c)))

\* the two roots np.roots([a, b, c]) returns for a discriminant >= 0, in
\* the order given by order (1 or 2)
np_roots(a, b, c, order) ==
    The({
    The({
    The({
        IF order = 1 THEN << rp, rm >> ELSE << rm, rp >> 
        : rm \in { RDiv(RSub(RNeg(b), sq), RMul(RInt(2), a)) } })
        : rp \in { RDiv(RAdd(RNeg(b), sq), RMul(RInt(2), a)) } })
        : sq \in { RSqrt(discriminant(a, b, c)) } })

\* min(roots, key=abs): the first element of least absolute value
MinAbs(roots) ==
    IF RLe(RAbs(roots[1]), RAbs(roots[2])) THEN roots[1] ELSE roots[2]

\* c of rescale_component: c = -2.0 * reduction
rescale_c(reduction) == RMul(RInt(-2), reduction)

\* rescale_component(direction, reduction): [self, heap, raised].  The
\* direction is normalized in place, in the heap object it is a view of.
\* With complex roots the in-place addition to the real velocity raises.
rescale_component(self, heap, ref, reduction, order) ==
    The({
    The({
    The({
    The({
    The({
        IF RLt(discriminant(a, b, c), RZero)
        THEN [ self |-> self, heap |-> heap1, raised |-> TRUE ]
        ELSE The({
               [ self |-> [ self EXCEPT !.velocity =
                              VAdd(@, VScale(scal, VMul(M_inv(self.mass),
                                                        direction))) ],
                 heap |-> heap1, raised |-> FALSE ]
        : scal \in { MinAbs(np_roots(a, b, c, order)) } })
        : c \in { rescale_c(reduction) } })
        : b \in { RMul(RInt(2), np_dot(self.velocity, direction)) } })
        : a \in { einsum_mmm(M_inv(self.mass), direction, direction) } })
        : heap1 \in { [ heap EXCEPT ![ref.e].derivative_coupling[ref.source][ref.target] = direction ] } })
        : direction \in { normalized(Deref(heap, ref)) } })

\* the energy-availability test of hop_to_it: delV <= component_kinetic
\* (a comparison with nan is False)
hop_allowed(delV, component_kinetic) ==
    ~component_kinetic.nan /\ RLe(delV, component_kinetic.val)

\* TrajectorySH.hop_to_it(hop_targets, electronics): [self, heap, raised];
\* electronics is a heap index, 0 for None
TrajectorySH_hop_to_it(self, heap, hop_targets, electronics, order) ==
    The({
    The({
    The({
    The({
    The({
    The({
        IF hop_allowed(delV, component_kinetic)
        THEN The({
                IF r.raised THEN r
                ELSE [ self |-> [ r.self EXCEPT !.tracer =
                                    hop(@, self.time, self.state, hop_to,
                                        hop_dict.zeta, hop_dict.prob) ],
                       heap |-> r.heap, raised |-> FALSE ]
        : r \in { rescale_component([ self EXCEPT !.state = hop_to ], heap, rescale_vector, RNeg(delV), order) } })
        ELSE [ self |-> self, heap |-> heap, raised |-> FALSE ]
        : component_kinetic \in { mode_kinetic_energy(self, Deref(heap, rescale_vector)) } })
        : rescale_vector \in { direction_of_rescale(self, self.state, hop_to) } })
        : delV \in { RSub(heap[elec_states].hamiltonian[hop_to], heap[elec_states].hamiltonian[self.state]) } })
        : elec_states \in { IF electronics # 0 THEN electronics ELSE self.electronics } })
        : hop_to \in { hop_dict.target } })
        : hop_dict \in { hop_targets[1] } })

\* np.cumsum(probs)[i] for probs indexed by the states 0..n-1
RECURSIVE cumsum(_, _)
cumsum(probs, i) == IF i = 0 THEN probs[0] ELSE RAdd(cumsum(probs, i - 1), probs[i])

\* np.less_equal in the place of np.less
hops_at_or_equal(zeta, probs, i) == RLe(zeta, cumsum(probs, i))

\* np.less(zeta, acc_prob)[i]
hops_at(zeta, probs, i) == RLt(zeta, cumsum(probs, i))

\* TrajectorySH.hopper(probs): the list of hop descriptors; zeta is the value
\* self.random() returns
TrajectorySH_hopper(self, probs, zeta) ==
    The({
        IF \E i \in 0..(self.nstates - 1) : hops[i]
        THEN The({
               << [ target |-> hop_to, weight |-> ROne, zeta |-> zeta,
                    prob |-> hops[hop_to] ] >>
        : hop_to \in { CHOOSE i \in 0..(self.nstates - 1) : hops[i] /\ \A j \in 0..(i - 1) : ~hops[j] } })
        ELSE << >>
        : hops \in { [ i \in 0..(self.nstates - 1) |-> hops_at(zeta, probs, i) ] } })

\* surface_hopping, lines 277-282: the self-hop entry zeroed and the
\* probabilities clipped at zero
clip_probs(self, raw) ==
    [ i \in 0..(self.nstates - 1) |->
        IF i = self.state \/ RLt(raw[i], RZero) THEN RZero ELSE raw[i] ]

\* sum(probs)
sum_probs(probs, n) == cumsum(probs, n - 1)

(***************************************************************************)
(* TrajectoryCum (fssh.py, not among the sources): the base class of       *)
(* EvenSamplingTrajectory.  Its constructor adds the probability           *)
(* accumulator prob_cum, starting at zero, and a first threshold zeta;     *)
(* hop_to_it is the one inherited from TrajectorySH.                       *)
(***************************************************************************)
TrajectoryCum_init(model, x0, p0, rho0, tracer, queue, options, u) ==
    The({
        [ raised |-> r.raised,
          obj |-> [ r.obj EXCEPT !.cls = "TrajectoryCum",
                                 !.prob_cum = RZero, !.zeta = u ] ]
        : r \in { TrajectorySH_init(model, x0, p0, rho0, tracer, queue, options) } })

TrajectoryCum_hop_to_it(self, heap, hop_targets, electronics, order) ==
    TrajectorySH_hop_to_it(self, heap, hop_targets, electronics, order)

(***************************************************************************)
(* EvenSamplingTrajectory (even_sampled_sh.py).  The hop probabilities of  *)
(* an even-sampling run are integers in units of ln 2, so that             *)
(* exp(-sum(probs)) is the rational 2^(-sum(probs)).                       *)
(***************************************************************************)
RECURSIVE Pow2(_)
Pow2(k) == IF k = 0 THEN 1 ELSE 2 * Pow2(k - 1)

\* np.exp(-gkdt) for gkdt = k ln 2
np_exp_neg(gkdt) == Rat(1, Pow2(gkdt[1]))

\* nan, the result of 0.0 / 0.0
NaN == << 0, 0 >>

\* EvenSamplingTrajectory.__init__: [raised, obj]; u is the value a random
\* generator returns if one is asked
EvenSamplingTrajectory_init(model, x0, p0, rho0, tracer, queue, options, u) ==
    The({
        IF r.raised \/ options.spawn_stack = None
        THEN [ raised |-> TRUE, obj |-> r.obj ]
        ELSE The({
               [ raised |-> nz.raised,
                 obj |-> [ r.obj EXCEPT
                             !.cls = "EvenSamplingTrajectory",
                             !.spawn_stack = nz.self,
                             !.zeta = IF nz.raised THEN @ ELSE nz.self.zeta[1] ] ]
        : nz \in { next_zeta(options.spawn_stack[1], u) } })
        : r \in { TrajectoryCum_init(model, x0, p0, rho0, tracer, queue, options, u) } })

\* the keyword arguments clone() passes to the constructor
clone_options(self, spawn_stack) ==
    [ NoOptions EXCEPT
        !.last_velocity = Some(self.last_velocity),
        !.state0 = Some(self.state),
        !.t0 = Some(self.time),
        !.previous_steps = Some(self.nsteps),
        !.trace_every = Some(self.trace_every),
        !.dt = Some(self.dt),
        !.outcome_type = Some(self.outcome_type),
        !.electronics = Some(self.electronics),
        !.spawn_stack = Some(spawn_stack) ]

\* clone(spawn_stack=None): [raised, obj]
clone(self, u) ==
    EvenSamplingTrajectory_init(
        [ mass |-> self.mass, nstates |-> self.nstates ],
        self.position,
        VMul(self.velocity, self.mass),
        [ scalar |-> FALSE, val |-> self.rho ],
        Some(self.tracer),
        self.queue,
        clone_options(self, self.spawn_stack),
        u)

\* the accumulation step of hopper: 1 - (1 - accumulated) * exp(-gkdt)
accumulate(accumulated, gkdt) ==
    RSub(ROne, RMul(RSub(ROne, accumulated), np_exp_neg(gkdt)))

\* the hop test of hopper: accumulated > self.zeta
exceeds(accumulated, zeta) == RLt(zeta, accumulated)

\* the weight of a descriptor: hop_choice[i] = probs[i] / gkdt
hop_choice(probs, gkdt, i) == IF gkdt = RZero THEN NaN ELSE RDiv(probs[i], gkdt)

\* the k-th state other than the active one, in increasing order:
\* [ i for i in range(nstates) if i != self.state ]
other_state(self, k) == IF k - 1 < self.state THEN k - 1 ELSE k

\* EvenSamplingTrajectory.hopper(probs): [self, targets, raised]
EvenSamplingTrajectory_hopper(self, probs, u) ==
    The({
    The({
        IF exceeds(accumulated, self.zeta)
        THEN The({
             The({
               IF sp.raised
               THEN [ self |-> self, targets |-> << >>, raised |-> TRUE ]
               ELSE IF nz.raised
               THEN [ self |-> [ self EXCEPT !.spawn_stack = nz.self ],
                      targets |-> << >>, raised |-> TRUE ]
               ELSE [ self |-> [ self EXCEPT !.spawn_stack = nz.self,
                                             !.zeta = nz.self.zeta[1] ],
                      targets |->
                        [ k \in 1..(self.nstates - 1) |->
                            [ target |-> other_state(self, k),
                              weight |-> hop_choice(probs, gkdt,
                                                    other_state(self, k)),
                              zeta |-> self.zeta,
                              prob |-> accumulated,
                              stack |-> sp.stack ] ],
                      raised |-> FALSE ]
        : nz \in { next_zeta(self.spawn_stack, u) } })
        : sp \in { spawn(self.spawn_stack) } })
        ELSE [ self |-> [ self EXCEPT !.prob_cum = accumulated ],
               targets |-> << >>, raised |-> FALSE ]
        : accumulated \in { accumulate(self.prob_cum, gkdt) } })
        : gkdt \in { sum_probs(probs, self.nstates) } })

\* the loop of EvenSamplingTrajectory.hop_to_it over zip(hop_to, spawned),
\* from position k: [queued, heap, raised].  The weight of the descriptor
\* is read and not used.
RECURSIVE spawn_loop(_, _, _, _, _)
spawn_loop(hop_to, spawned, heap, k, order) ==
    IF k > Len(hop_to)
    THEN [ queued |-> << >>, heap |-> heap, raised |-> FALSE ]
    ELSE The({
         The({
            IF r.raised
            THEN [ queued |-> << >>, heap |-> r.heap, raised |-> TRUE ]
            ELSE The({
                   [ queued |-> << r.self >> \o rest.queued,
                     heap |-> rest.heap, raised |-> rest.raised ]
        : rest \in { spawn_loop(hop_to, spawned, r.heap, k + 1, order) } })
        : r \in { TrajectoryCum_hop_to_it(sp, heap, << hop_to[k] >>, sp.electronics, order) } })
        : sp \in { [ spawned[k] EXCEPT !.spawn_stack = hop_to[k].stack ] } })

\* the inherited hop_to_it, not overridden: the first descriptor is enacted
\* on the trajectory itself and nothing is put on the queue
hop_in_place(self, heap, hop_to, us, order) ==
    The({
        [ self |-> r.self, queued |-> << >>, heap |-> r.heap, raised |-> r.raised ]
        : r \in { TrajectoryCum_hop_to_it(self, heap, << hop_to[1] >>, self.electronics, order) } })

\* EvenSamplingTrajectory.hop_to_it(hop_to): [self, queued, heap, raised];
\* us[k] is the value a random generator returns to clone k if it asks.
\* The trajectory itself is not assigned to.
EvenSamplingTrajectory_hop_to_it(self, heap, hop_to, us, order) ==
    The({
        IF \E k \in 1..Len(hop_to) : clones[k].raised
        THEN [ self |-> self, queued |-> << >>, heap |-> heap, raised |-> TRUE ]
        ELSE The({
               [ self |-> self, queued |-> r.queued, heap |-> r.heap,
                 raised |-> r.raised ]
        : r \in { spawn_loop(hop_to, [ k \in 1..Len(hop_to) |-> clones[k].obj ], heap, 1, order) } })
        : clones \in { [ k \in 1..Len(hop_to) |-> clone(self, us[k]) ] } })

(***************************************************************************)
(* simulate(), in the steps of its loop.                                   *)
(***************************************************************************)
\* propagate_electronics over n half steps: a new density matrix
propagate_electronics(self, halfsteps) == [ self EXCEPT !.rho = @ + halfsteps ]

\* advance_position(electronics)
advance_position(self) ==
    [ self EXCEPT !.position = VAdd(@, VScale(self.dt, self.velocity)) ]

\* advance_velocity(electronics)
advance_velocity(self, es) ==
    [ self EXCEPT !.last_velocity = self.velocity,
                  !.velocity = VAdd(self.velocity,
                                    VScale(self.dt, VDiv(force(self, es), self.mass))) ]

\* the half step in velocity at the start of simulate(), lines 338-341
half_kick(self, es) ==
    The({
        [ self EXCEPT !.last_velocity = VSub(self.velocity, dv),
                      !.velocity = VAdd(self.velocity, dv) ]
        : dv \in { VScale(RMul(RHalf, self.dt), VDiv(force(self, es), self.mass)) } })

\* simulate(), lines 332-350, to the first trace: [self, heap]; e is the
\* electronics object model.update(position) returns
simulate_start(self, heap, e) ==
    The({
    The({
        [ self |-> [ trace([ s1 EXCEPT !.hopping = << RZero >> ], heap1, FALSE)
                       EXCEPT !.pc = "advance" ],
          heap |-> heap1 ]
        : s1 \in { IF self.restart THEN self ELSE propagate_electronics( half_kick([ self EXCEPT !.electronics = Len(heap1) ], e), 1) } })
        : heap1 \in { IF self.restart THEN heap ELSE Append(heap, e) } })

\* the loop body, lines 355-364: [self, heap]; e is the electronics object
\* self.electronics.update(position) returns
simulate_advance(self, heap, e) ==
    The({
        [ self |-> [ propagate_electronics(
                       advance_velocity(
                         [ advance_position(self) EXCEPT !.electronics = Len(heap1) ],
                         e), 2)
                       EXCEPT !.pc = "hopper" ],
          heap |-> heap1 ]
        : heap1 \in { Append(heap, e) } })

\* the end of surface_hopping and line 365: self.hopping = sum(probs)
end_surface_hopping(self) ==
    [ self EXCEPT !.hopping = << sum_probs(self.hopping, self.nstates) >>,
                  !.hop_targets = << >>, !.pc = "tick" ]

\* lines 367-368: the clock
simulate_clock(self) ==
    [ self EXCEPT !.time = RAdd(@, self.dt), !.nsteps = @ + 1 ]

\* lines 370-376, given what continue_simulating returned: the trace of a
\* continuing step, or the break and the forced trace
simulate_end(cs, heap) ==
    IF ~cs.ret
    THEN [ trace(cs.self, heap, TRUE) EXCEPT !.pc = "done" ]
    ELSE [ trace(cs.self, heap, FALSE) EXCEPT !.pc = "advance" ]

\* outcome(): [raised, ret].  "self.position < 0.0" is the truth value of
\* an array, an error unless the array has one element; np.real(rho) is an
\* array, which has no attribute diag
outcome(self) ==
    IF Len(self.position) # 1
    THEN [ raised |-> TRUE, ret |-> << >> ]
    ELSE IF self.outcome_type = "populations"
    THEN [ raised |-> TRUE, ret |-> << >> ]
    ELSE IF self.outcome_type = "state"
    THEN The({
           [ raised |-> FALSE,
             ret |-> [ i \in 0..(self.nstates - 1) |->
                         [ side \in 0..1 |->
                             IF i = self.state /\ side = lr THEN ROne ELSE RZero ] ] ]
           : lr \in { IF RLt(self.position[1], RZero) THEN 0 ELSE 1 } })
    ELSE [ raised |-> TRUE, ret |-> << >> ]

(***************************************************************************)
(* The state: every trajectory object constructed so far (trajs), the      *)
(* shared work queue (of indices into trajs), the heap of electronics      *)
(* objects (elec), the trajectory whose simulate() is running (cur), the   *)
(* number of trajectories taken from the queue (nrun), the SpawnStacks of  *)
(* a tree used on its own (stk, empty before it is built), a record of the *)
(* last call (ev): the operation, the object it was called on, that object, the *)
(* heap and the queue before the call, the arguments, the result, whether  *)
(* the call raised.                                                        *)
(***************************************************************************)
VARIABLES trajs, queue, elec, cur, nrun, stk, ev

vars == << trajs, queue, elec, cur, nrun, stk, ev >>

EvNone ==
    [ op |-> "none", id |-> 0, pre |-> << >>, heap0 |-> << >>, q0 |-> << >>,
      arg |-> << >>, ret |-> << >>, raised |-> FALSE ]

Called(op, id, pre, arg, ret, raised) ==
    [ op |-> op, id |-> id, pre |-> pre, heap0 |-> elec, q0 |-> queue,
      arg |-> arg, ret |-> ret, raised |-> raised ]

(***************************************************************************)
(* The inputs: the model (masses, number of states), the electronics the   *)
(* model computes at a position, the raw hop probabilities of a step and   *)
(* the values the random generators return.                                *)
(***************************************************************************)
States == 0..(NStates - 1)
V2(a, b) == << RInt(a), RInt(b) >>

\* diagonal entries of the Hamiltonian: 0, 4, 6, 8, ...
Energy(i) == IF i = 0 THEN RZero ELSE RInt(2 + 2 * i)
\* the same with a first gap of 1/2
EnergyLow(i) == IF i = 1 THEN RHalf ELSE Energy(i)

\* an electronics object, with the first gap 1/2 if low: the force on state
\* i is (0, i), the derivative coupling between two states is d,
\* antisymmetric
Electronics(low, d) ==
    [ hamiltonian |-> [ i \in States |-> IF low THEN EnergyLow(i) ELSE Energy(i) ],
      force |-> [ i \in States |-> V2(0, i) ],
      derivative_coupling |->
        [ i \in States |-> [ j \in States |->
            IF i = j THEN VZero(d)
            ELSE IF i < j THEN d ELSE VScale(RInt(-1), d) ] ] ]

ElecEven == { Electronics(FALSE, V2(2, 0)) }
ElecSH == { Electronics(FALSE, V2(2, 0)), Electronics(TRUE, V2(3, 4)) }

\* raw probabilities of an even-sampling step, in units of ln 2
RawProbsEven ==
    { [ i \in States |-> RZero ],
      [ i \in States |-> ROne ],
      [ i \in States |-> IF i = 1 THEN ROne ELSE RZero ],
      [ i \in States |-> IF i = 0 THEN RInt(2) ELSE RInt(-1) ] }

\* raw probabilities of a stochastic step
RawProbsSH ==
    { [ i \in States |-> RZero ],
      [ i \in States |-> IF i = 1 THEN RHalf ELSE Rat(1, 4) ],
      [ i \in States |-> IF i = 0 THEN Rat(3, 4) ELSE RInt(-1) ] }

ZetaDraws == { RZero, RHalf }
ZetaDrawsSH == { RZero, RHalf, Rat(3, 4) }
Orders == { 1, 2 }

Model(mass) == [ mass |-> mass, nstates |-> NStates ]
Ground == [ scalar |-> TRUE, val |-> "ground" ]

\* the values a generator may return to a stack: one is drawn only when the
\* stack has no tree
Draws(stack) == IF stack.sample_stack = None THEN ZetaDraws ELSE { RZero }

(***************************************************************************)
(* The steps of simulate() on the running trajectory.                      *)
(***************************************************************************)
\* simulate() to its first trace; model.update(position) returns e
SimStart(E) ==
    /\ cur # 0
    /\ trajs[cur].pc = "new"
    /\ \E e \in E :
         \E r \in { simulate_start(trajs[cur], elec, e) } :
            /\ trajs' = [ trajs EXCEPT ![cur] = r.self ]
            /\ elec' = r.heap
            /\ ev' = Called("simulate_start", cur, trajs[cur], << >>, << >>, FALSE)
    /\ UNCHANGED << queue, cur, nrun, stk >>

\* position, electronics, velocity, density matrix of one step; cap is the
\* horizon of the model
Advance(E, cap) ==
    /\ cur # 0
    /\ trajs[cur].pc = "advance"
    /\ trajs[cur].nsteps < cap
    /\ \E e \in E :
         \E r \in { simulate_advance(trajs[cur], elec, e) } :
            /\ trajs' = [ trajs EXCEPT ![cur] = r.self ]
            /\ elec' = r.heap
            /\ ev' = Called("advance", cur, trajs[cur], << >>, << >>, FALSE)
    /\ UNCHANGED << queue, cur, nrun, stk >>

\* what surface_hopping does with the descriptors hopper returned
after_hopper(self, targets, raised) ==
    IF raised THEN [ self EXCEPT !.pc = "error" ]
    ELSE IF targets # << >>
    THEN [ self EXCEPT !.hop_targets = targets, !.pc = "hop" ]
    ELSE end_surface_hopping(self)

\* surface_hopping to the return of EvenSamplingTrajectory.hopper
HopperEven ==
    /\ cur # 0
    /\ trajs[cur].pc = "hopper"
    /\ trajs[cur].cls = "EvenSamplingTrajectory"
    /\ \E raw \in RawProbsEven, u \in Draws(trajs[cur].spawn_stack) :
         \E s0 \in { [ trajs[cur] EXCEPT !.hopping = clip_probs(trajs[cur], raw) ] } :
         \E r \in { EvenSamplingTrajectory_hopper(s0, s0.hopping, u) } :
            /\ trajs' = [ trajs EXCEPT ![cur] = after_hopper(r.self, r.targets, r.raised) ]
            /\ ev' = Called("hopper", cur, s0, s0.hopping, r.targets, r.raised)
    /\ UNCHANGED << queue, elec, cur, nrun, stk >>

\* the trajectories of old and the clones put on the queue
with_clones(old, id, self, queued) ==
    [ old EXCEPT ![id] = self ] \o queued

\* EvenSamplingTrajectory.hop_to_it and the rest of surface_hopping
HopToItEven ==
    /\ cur # 0
    /\ trajs[cur].pc = "hop"
    /\ trajs[cur].cls = "EvenSamplingTrajectory"
    /\ \E us \in [ 1..Len(trajs[cur].hop_targets) -> Draws(trajs[cur].spawn_stack) ],
          order \in Orders :
         \E r \in { EvenSamplingTrajectory_hop_to_it(trajs[cur], elec,
                        trajs[cur].hop_targets, us, order) } :
            /\ trajs' = with_clones(trajs, cur,
                          IF r.raised THEN [ r.self EXCEPT !.pc = "error" ]
                          ELSE end_surface_hopping(r.self),
                          r.queued)
            /\ queue' = queue \o [ k \in 1..Len(r.queued) |-> Len(trajs) + k ]
            /\ elec' = r.heap
            /\ ev' = Called("hop_to_it", cur, trajs[cur],
                            trajs[cur].hop_targets, r.queued, r.raised)
    /\ UNCHANGED << cur, nrun, stk >>

\* the clock, continue_simulating() and the trace that follows
Tick ==
    /\ cur # 0
    /\ trajs[cur].pc = "tick"
    /\ \E s1 \in { simulate_clock(trajs[cur]) } :
         \E cs \in { continue_simulating(s1) } :
            /\ trajs' = [ trajs EXCEPT ![cur] = simulate_end(cs, elec) ]
            /\ ev' = Called("continue_simulating", cur, s1, << >>, cs.ret, FALSE)
    /\ UNCHANGED << queue, elec, cur, nrun, stk >>

\* the driver takes the next trajectory from the queue once simulate() has
\* returned or raised
Dequeue ==
    /\ cur # 0
    /\ trajs[cur].pc \in { "done", "error" }
    /\ queue # << >>
    /\ nrun < MaxRun
    /\ cur' = Head(queue)
    /\ queue' = Tail(queue)
    /\ nrun' = nrun + 1
    /\ ev' = Called("get", Head(queue), trajs[Head(queue)], << >>, << >>, FALSE)
    /\ UNCHANGED << trajs, elec, stk >>

(***************************************************************************)
(* Spec: one original EvenSamplingTrajectory built on a SpawnStack of      *)
(* build_simple, and the clones it puts on the queue.                      *)
(***************************************************************************)
EvenOptions(stack) ==
    [ NoOptions EXCEPT !.dt = Some(ROne), !.max_steps = Some(MaxSteps),
                       !.spawn_stack = Some(stack) ]

Init ==
    \E nsamples \in 2..MaxSamples, sample_depth \in 1..MaxDepth,
       include_first \in BOOLEAN :
       \E r \in { EvenSamplingTrajectory_init(
                    Model(V2(1, 1)), V2(0, 0), V2(3, 0), Ground, None, "queue",
                    EvenOptions(build_simple(nsamples, sample_depth, include_first)),
                    RZero) } :
          /\ trajs = << [ r.obj EXCEPT !.pc = IF r.raised THEN "error" ELSE "new" ] >>
          /\ queue = << >>
          /\ elec = << >>
          /\ cur = 1
          /\ nrun = 0
          /\ stk = << >>
          /\ ev = [ EvNone EXCEPT !.op = "build_simple",
                      !.arg = << nsamples, sample_depth, include_first >>,
                      !.ret = build_simple(nsamples, sample_depth, include_first) ]

Next ==
    \/ SimStart(ElecEven)
    \/ Advance(ElecEven, StepCap)
    \/ HopperEven
    \/ HopToItEven
    \/ Tick
    \/ Dequeue

Spec == Init /\ [][Next]_vars

(***************************************************************************)
(* SpecSH: one stochastic TrajectorySH, with or without a bounding box,    *)
(* with equal or unequal masses.                                           *)
(***************************************************************************)
\* the largest max_steps option of SpecSH
MaxBudget == 2

\* the bounding box 1 < x < 6, -1 < y < 1
Box == << V2(1, -1), V2(6, 1) >>

\* mass and initial momentum: velocity (3, 0) or (0, 1)
Particles ==
    { [ mass |-> V2(1, 1), p0 |-> V2(3, 0) ],
      [ mass |-> V2(1, 2), p0 |-> V2(0, 2) ] }

SHOptions(bounds, max_steps, max_time, trace_every) ==
    [ NoOptions EXCEPT !.dt = Some(ROne), !.bounds = bounds,
                       !.max_steps = Some(max_steps), !.max_time = max_time,
                       !.trace_every = trace_every ]

InitSH ==
    \E particle \in Particles, bounds \in { None, Some(Box) },
       max_steps \in 0..MaxBudget, max_time \in { None, Some(ROne) },
       trace_every \in { None, Some(2) } :
       \E r \in { TrajectorySH_init(Model(particle.mass), V2(0, 0), particle.p0,
                                    Ground, None, "queue",
                                    SHOptions(bounds, max_steps, max_time,
                                              trace_every)) } :
          /\ trajs = << [ r.obj EXCEPT !.pc = IF r.raised THEN "error" ELSE "new" ] >>
          /\ queue = << >>
          /\ elec = << >>
          /\ cur = 1
          /\ nrun = 0
          /\ stk = << >>
          /\ ev = EvNone

\* surface_hopping to the return of TrajectorySH.hopper; zeta is the value
\* self.random() returns
HopperSH ==
    /\ cur # 0
    /\ trajs[cur].pc = "hopper"
    /\ trajs[cur].cls = "TrajectorySH"
    /\ \E raw \in RawProbsSH, zeta \in ZetaDrawsSH :
         \E s0 \in { [ trajs[cur] EXCEPT !.hopping = clip_probs(trajs[cur], raw) ] } :
         \E targets \in { TrajectorySH_hopper(s0, s0.hopping, zeta) } :
            /\ trajs' = [ trajs EXCEPT ![cur] = after_hopper(s0, targets, FALSE) ]
            /\ ev' = Called("hopper", cur, s0, << s0.hopping, zeta >>, targets, FALSE)
    /\ UNCHANGED << queue, elec, cur, nrun, stk >>

\* the numbers of rescale_component are rationals: the norm of the
\* direction is one, and the discriminant of an allowed hop is negative or
\* the square of a rational (the model follows no other hop)
rational_roots(self, heap, hop_to) ==
    The({ RIsSquare(np_dot(d, d)) /\
          The({ hop_allowed(delV, mode_kinetic_energy(self, d)) =>
                The({ RLt(disc, RZero) \/ RIsSquare(disc)
                    : disc \in { discriminant(
                                   einsum_mmm(M_inv(self.mass), normalized(d),
                                              normalized(d)),
                                   RMul(RInt(2), np_dot(self.velocity,
                                                        normalized(d))),
                                   rescale_c(RNeg(delV))) } })
              : delV \in { RSub(heap[self.electronics].hamiltonian[hop_to],
                                heap[self.electronics].hamiltonian[self.state]) } })
        : d \in { Deref(heap, direction_of_rescale(self, self.state, hop_to)) } })

\* TrajectorySH.hop_to_it(hop_targets, elec_states) and the rest of
\* surface_hopping
HopToItSH ==
    /\ cur # 0
    /\ trajs[cur].pc = "hop"
    /\ trajs[cur].cls = "TrajectorySH"
    /\ rational_roots(trajs[cur], elec, trajs[cur].hop_targets[1].target)
    /\ \E order \in Orders :
         \E r \in { TrajectorySH_hop_to_it(trajs[cur], elec, trajs[cur].hop_targets,
                                           trajs[cur].electronics, order) } :
            /\ trajs' = [ trajs EXCEPT ![cur] =
                            IF r.raised THEN [ r.self EXCEPT !.pc = "error" ]
                            ELSE end_surface_hopping(r.self) ]
            /\ elec' = r.heap
            /\ ev' = Called("hop_to_it", cur, trajs[cur], trajs[cur].hop_targets,
                            << >>, r.raised)
    /\ UNCHANGED << queue, cur, nrun, stk >>

NextSH ==
    \/ SimStart(ElecSH)
    \/ Advance(ElecSH, MaxBudget + 2)
    \/ HopperSH
    \/ HopToItSH
    \/ Tick

SpecSH == InitSH /\ [][NextSH]_vars

(***************************************************************************)
(* SpecConfig: the life of one TrajectorySH on a line, from the call of    *)
(* its constructor, with every form of rho0 and of the outcome type, to    *)
(* outcome() after simulate() has returned.                                *)
(***************************************************************************)
\* the electronics of a model on a line: no force, coupling (2)
ElecLine ==
    { [ Electronics(FALSE, << RInt(2) >>) EXCEPT
          !.force = [ i \in States |-> << RZero >> ] ] }

\* rho0: "ground", another scalar, a density matrix
InitialStates ==
    { Ground, [ scalar |-> TRUE, val |-> "excited" ], [ scalar |-> FALSE, val |-> 0 ] }

OutcomeTypes == { None, Some("state"), Some("populations"), Some("left") }

ConfigOptions(state0, outcome_type, max_steps) ==
    [ NoOptions EXCEPT !.dt = Some(ROne), !.state0 = state0,
                       !.outcome_type = outcome_type,
                       !.max_steps = Some(max_steps) ]

InitConfig ==
    /\ trajs = << >>
    /\ queue = << >>
    /\ elec = << >>
    /\ cur = 0
    /\ nrun = 0
    /\ stk = << >>
    /\ ev = EvNone

\* the constructor: when it raises there is no object; an object left
\* without rho and state is not simulated
Construct ==
    /\ trajs = << >>
    /\ ev.op = "none"
    /\ \E rho0 \in InitialStates, state0 \in { None, Some(1) },
          outcome_type \in OutcomeTypes, max_steps \in 0..MaxSteps,
          x0 \in { << RInt(-7) >>, << RZero >> } :
         \E options \in { ConfigOptions(state0, outcome_type, max_steps) } :
         \E r \in { TrajectorySH_init(Model(<< ROne >>), x0, << RInt(3) >>, rho0,
                                      None, "queue", options) } :
            /\ trajs' = IF r.raised THEN << >>
                        ELSE << [ r.obj EXCEPT !.pc =
                                    IF r.obj.state = Unset THEN "unset" ELSE "new" ] >>
            /\ cur' = IF r.raised THEN 0 ELSE 1
            /\ ev' = Called("__init__", cur', << >>, << rho0, options >>, << >>, r.raised)
    /\ UNCHANGED << queue, elec, nrun, stk >>

\* outcome() on the trajectory whose simulate() has returned
Outcome ==
    /\ cur # 0
    /\ trajs[cur].pc = "done"
    /\ \E r \in { outcome(trajs[cur]) } :
         /\ trajs' = [ trajs EXCEPT ![cur].pc = IF r.raised THEN "error" ELSE "classified" ]
         /\ ev' = Called("outcome", cur, trajs[cur], << >>, r.ret, r.raised)
    /\ UNCHANGED << queue, elec, cur, nrun, stk >>

NextConfig ==
    \/ Construct
    \/ SimStart(ElecLine)
    \/ Advance(ElecLine, MaxSteps + 2)
    \/ HopperSH
    \/ HopToItSH
    \/ Tick
    \/ Outcome

SpecConfig == InitConfig /\ [][NextConfig]_vars

(***************************************************************************)
(* SpecRun: one stochastic TrajectorySH without a bounding box, started    *)
(* with previous_steps = s and t0 = s * dt as the continuation of a run of *)
(* s steps, under every step budget and with or without a time budget.    *)
(***************************************************************************)
\* the largest previous_steps option of SpecRun
MaxPrev == 2

RunOptions(s, dt, max_steps, max_time) ==
    [ NoOptions EXCEPT !.dt = Some(dt), !.previous_steps = Some(s),
                       !.t0 = Some(RMul(RInt(s), dt)),
                       !.max_steps = Some(max_steps), !.max_time = max_time ]

InitRun ==
    \E particle \in Particles, s \in 0..MaxPrev, dt \in { ROne, RHalf },
       max_steps \in 0..MaxBudget, max_time \in { None, Some(ROne) } :
       \E r \in { TrajectorySH_init(Model(particle.mass), V2(0, 0), particle.p0,
                                    Ground, None, "queue",
                                    RunOptions(s, dt, max_steps, max_time)) } :
          /\ trajs = << [ r.obj EXCEPT !.pc = IF r.raised THEN "error" ELSE "new" ] >>
          /\ queue = << >>
          /\ elec = << >>
          /\ cur = 1
          /\ nrun = 0
          /\ stk = << >>
          /\ ev = EvNone

NextRun ==
    \/ SimStart(ElecSH)
    \/ Advance(ElecSH, MaxPrev + MaxBudget + 1)
    \/ HopperSH
    \/ HopToItSH
    \/ Tick

SpecRun == InitRun /\ [][NextRun]_vars

(***************************************************************************)
(* SpecStack: a SpawnStack built by build_simple and the calls of          *)
(* next_zeta and spawn on it.  stk holds the stacks created so far, the    *)
(* root first: each spawn is called on the last one and adds the stack it  *)
(* returns.  The calls stop at the first exception.                        *)
(***************************************************************************)
InitStack ==
    /\ trajs = << >>
    /\ queue = << >>
    /\ elec = << >>
    /\ cur = 0
    /\ nrun = 0
    /\ stk = << >>
    /\ ev = EvNone

BuildSimple ==
    /\ stk = << >>
    /\ \E nsamples \in 2..MaxSamples, sample_depth \in 1..MaxDepth,
          include_first \in BOOLEAN :
         /\ stk' = << build_simple(nsamples, sample_depth, include_first) >>
         /\ ev' = Called("build_simple", 0, << >>,
                         << nsamples, sample_depth, include_first >>,
                         build_simple(nsamples, sample_depth, include_first), FALSE)
    /\ UNCHANGED << trajs, queue, elec, cur, nrun >>

NextZeta ==
    /\ stk # << >>
    /\ ~ev.raised
    /\ \E u \in Draws(stk[Len(stk)]) :
         \E r \in { next_zeta(stk[Len(stk)], u) } :
            /\ stk' = [ stk EXCEPT ![Len(stk)] = r.self ]
            /\ ev' = Called("next_zeta", 0, stk[Len(stk)], << u >>, r.self.zeta, r.raised)
    /\ UNCHANGED << trajs, queue, elec, cur, nrun >>

Spawn ==
    /\ stk # << >>
    /\ Len(stk) <= MaxDepth + 1
    /\ ~ev.raised
    /\ \E r \in { spawn(stk[Len(stk)]) } :
         /\ stk' = IF r.raised THEN stk ELSE Append(stk, r.stack)
         /\ ev' = Called("spawn", 0, stk[Len(stk)], << >>, r.stack, r.raised)
    /\ UNCHANGED << trajs, queue, elec, cur, nrun >>

NextStack == BuildSimple \/ NextZeta \/ Spawn

SpecStack == InitStack /\ [][NextStack]_vars

(***************************************************************************)
(* Properties of the even-sampling hop event (Spec).                       *)
(***************************************************************************)
\* the stack has a tree and its cursor is on a node of the level
OnNode(stack) ==
    /\ Truthy(stack.sample_stack)
    /\ stack.izeta # None
    /\ stack.izeta[1] < Len(stack.sample_stack[1])

\* the node at the cursor
NodeAt(stack) == stack.sample_stack[1][stack.izeta[1] + 1]

\* the last call was EvenSamplingTrajectory.hop_to_it and it returned
HopEventReturned ==
    /\ ev.op = "hop_to_it"
    /\ ev.pre.cls = "EvenSamplingTrajectory"
    /\ ~ev.raised

\* the weights of the clones put on the queue by the last call
CloneWeights == [ k \in 1..Len(ev.ret) |-> ev.ret[k].weight ]

\* C1: after a hop event of the even-sampling variant, the weight of each
\* clone is the producer's weight times the hop weight of its descriptor,
\* and the weights of the clones of the event sum to the producer's weight.
C1_CloneWeightsSumToProducer ==
    HopEventReturned =>
        /\ \A k \in 1..Len(ev.ret) :
              ev.ret[k].weight = RMul(ev.pre.weight, ev.arg[k].weight)
        /\ RSum(CloneWeights) = ev.pre.weight

\* a hop event has returned with a clone for each of the two other states
C1_Witness == HopEventReturned /\ Len(ev.ret) = NStates - 1 /\ Len(ev.ret) >= 2

\* the clone of descriptor k of the last hop event, as it is in the queue
QueuedClone(k) == trajs[queue[Len(ev.q0) + k]]

\* C2: a hop event of the even-sampling variant does not change the
\* trajectory it is called on: position, velocity, last velocity, density
\* matrix, active state, time and step count are those of before the call,
\* its tracer has no new hop event, and the queue has one new clone for
\* each descriptor, that is for each state other than the active one,
\* whether the hop of the clone was allowed or forbidden.
C2_HopEventLeavesProducer ==
    HopEventReturned =>
        /\ trajs[ev.id].position = ev.pre.position
        /\ trajs[ev.id].velocity = ev.pre.velocity
        /\ trajs[ev.id].last_velocity = ev.pre.last_velocity
        /\ trajs[ev.id].rho = ev.pre.rho
        /\ trajs[ev.id].state = ev.pre.state
        /\ trajs[ev.id].time = ev.pre.time
        /\ trajs[ev.id].nsteps = ev.pre.nsteps
        /\ trajs[ev.id].tracer.hops = ev.pre.tracer.hops
        /\ Len(ev.arg) = ev.pre.nstates - 1
        /\ Len(queue) = Len(ev.q0) + Len(ev.arg)
        /\ \A k \in 1..Len(ev.q0) : queue[k] = ev.q0[k]
        /\ \A k \in 1..Len(ev.arg) :
              /\ ev.arg[k].target = other_state(ev.pre, k)
              /\ queue[Len(ev.q0) + k] = Len(trajs) - Len(ev.arg) + k
              /\ QueuedClone(k).state \in { ev.arg[k].target, ev.pre.state }
              /\ QueuedClone(k).pc = "new"

\* a hop event has returned with one clone that hopped and one clone whose
\* hop was forbidden
C2_Witness ==
    /\ HopEventReturned
    /\ \E k \in 1..Len(ev.arg) : QueuedClone(k).state = ev.arg[k].target
    /\ \E k \in 1..Len(ev.arg) : QueuedClone(k).state = ev.pre.state

\* C3: the electronics a trajectory holds is not modified in place, and a
\* hop enacted on a clone changes nothing the producer can observe: after
\* hop_to_it every electronics object that existed before the call, the
\* producer's among them, has the value it had before the call.
C3_ElectronicsNotMutated ==
    (ev.op = "hop_to_it" /\ ev.pre.cls = "EvenSamplingTrajectory") =>
        /\ \A e \in 1..Len(ev.heap0) : elec[e] = ev.heap0[e]
        /\ elec[trajs[ev.id].electronics] = ev.heap0[ev.pre.electronics]

\* a hop event has returned with a clone whose hop was accepted, the clone
\* holding the electronics object the producer holds
C3_Witness ==
    /\ HopEventReturned
    /\ \E k \in 1..Len(ev.arg) :
          /\ QueuedClone(k).state = ev.arg[k].target
          /\ QueuedClone(k).electronics = trajs[ev.id].electronics

\* the accumulated probability of the last call of the even-sampling hopper
Accumulated ==
    accumulate(ev.pre.prob_cum, sum_probs(ev.arg, ev.pre.nstates))

\* C6: the even-sampling hopper returns, exactly when the new accumulated
\* probability exceeds the current zeta, one descriptor for every state
\* other than the active one in increasing order, with weight
\* prob[target]/sum(prob) (the weights summing to 1), the zeta that was
\* exceeded, the accumulated probability and the spawn stack taken at the
\* cursor; otherwise it returns no descriptor and stores the accumulated
\* probability.
C6_EvenHopperDecision ==
    (ev.op = "hopper" /\ ev.pre.cls = "EvenSamplingTrajectory") =>
        IF exceeds(Accumulated, ev.pre.zeta)
        THEN /\ ~ev.raised
             /\ Len(ev.ret) = ev.pre.nstates - 1
             /\ \A k \in 1..Len(ev.ret) :
                   /\ ev.ret[k].target = other_state(ev.pre, k)
                   /\ ev.ret[k].weight =
                        RDiv(ev.arg[ev.ret[k].target],
                             sum_probs(ev.arg, ev.pre.nstates))
                   /\ ev.ret[k].zeta = ev.pre.zeta
                   /\ ev.ret[k].prob = Accumulated
                   /\ ev.ret[k].stack = spawn(ev.pre.spawn_stack).stack
             /\ RSum([ k \in 1..Len(ev.ret) |-> ev.ret[k].weight ]) = ROne
        ELSE /\ ~ev.raised
             /\ ev.ret = << >>
             /\ trajs[ev.id].prob_cum = Accumulated

\* the hopper of a clone was called with an accumulated probability above
\* the clone's zeta
C6_Witness ==
    /\ ev.op = "hopper"
    /\ ev.pre.cls = "EvenSamplingTrajectory"
    /\ ev.id > 1
    /\ exceeds(Accumulated, ev.pre.zeta)

\* the last call was EvenSamplingTrajectory.hopper(probs)
EvenHopper == ev.op = "hopper" /\ ev.pre.cls = "EvenSamplingTrajectory"

\* C13: the deterministic variant involves no randomness: what hopper
\* returns and the threshold it leaves on the trajectory are the same
\* whatever value a random generator returns during the call, so that two
\* runs from the same model, initial condition and SpawnStack have the same
\* hop times, targets and thresholds.
C13_NoRandomThreshold ==
    EvenHopper =>
        \A u1 \in ZetaDraws, u2 \in ZetaDraws :
            EvenSamplingTrajectory_hopper(ev.pre, ev.arg, u1)
              = EvenSamplingTrajectory_hopper(ev.pre, ev.arg, u2)

\* a trajectory whose stack holds no tree, a clone spawned at the deepest
\* level, has fired a hop event and taken its next threshold
C13_Witness ==
    /\ EvenHopper
    /\ ev.id > 1
    /\ ev.pre.spawn_stack.sample_stack = None
    /\ ~ev.raised
    /\ ev.ret # << >>
    /\ trajs[ev.id].zeta \in ZetaDraws

\* C15: a clone put on the queue by a hop event is a copy of its producer:
\* its position, density matrix, last velocity, time, step count, time
\* step, trace cadence, outcome mode and duration criteria (box, max_steps,
\* max_time, entered flag) are those of the producer at the hop, and its
\* queue is the producer's.
C15_CloneCopiesProducer ==
    HopEventReturned =>
        \A k \in 1..Len(ev.ret) :
            /\ QueuedClone(k).position = ev.pre.position
            /\ QueuedClone(k).rho = ev.pre.rho
            /\ QueuedClone(k).last_velocity = ev.pre.last_velocity
            /\ QueuedClone(k).time = ev.pre.time
            /\ QueuedClone(k).nsteps = ev.pre.nsteps
            /\ QueuedClone(k).dt = ev.pre.dt
            /\ QueuedClone(k).trace_every = ev.pre.trace_every
            /\ QueuedClone(k).outcome_type = ev.pre.outcome_type
            /\ QueuedClone(k).queue = ev.pre.queue
            /\ QueuedClone(k).duration = ev.pre.duration

\* a hop event of a producer whose max_steps is not the default has put a
\* clone on the queue
C15_Witness ==
    /\ HopEventReturned
    /\ Len(ev.ret) >= 1
    /\ ev.pre.duration.max_steps = MaxSteps
    /\ QueuedClone(1).position = ev.pre.position

\* the last call of hopper fired a hop event, on a trajectory whose stack
\* has its cursor on a threshold of a level
HopFired ==
    /\ EvenHopper
    /\ ~ev.raised
    /\ ev.ret # << >>
    /\ OnNode(ev.pre.spawn_stack)

\* C16: after a hop event has fired, the zeta of the trajectory is the
\* threshold of its level directly after the one that was exceeded, and
\* its accumulator prob_cum is zero again.
C16_ThresholdAdvancedAccumulatorReset ==
    HopFired =>
        /\ trajs[ev.id].spawn_stack.izeta = Some(ev.pre.spawn_stack.izeta[1] + 1)
        /\ trajs[ev.id].zeta
             = ev.pre.spawn_stack.sample_stack[1][ev.pre.spawn_stack.izeta[1] + 2].zeta
        /\ trajs[ev.id].prob_cum = RZero

\* the original trajectory has fired a hop event after a step that had
\* accumulated probability without firing
C16_Witness ==
    /\ HopFired
    /\ ev.id = 1
    /\ RLt(RZero, ev.pre.prob_cum)
    /\ RLt(ev.pre.zeta, trajs[ev.id].zeta)

\* the even-sampling trajectories constructed without an exception whose
\* stack holds a level of a tree
Scheduled ==
    { i \in 1..Len(trajs) :
        /\ trajs[i].cls = "EvenSamplingTrajectory"
        /\ trajs[i].pc # "error"
        /\ Truthy(trajs[i].spawn_stack.sample_stack) }

\* C17: between steps, the zeta of every even-sampling trajectory,
\* original or clone, is the threshold at the cursor of the SpawnStack it
\* owns: the cursor of the stack is on a node and zeta is the threshold of
\* that node.
C17_ZetaAtCursor ==
    \A i \in Scheduled :
        /\ OnNode(trajs[i].spawn_stack)
        /\ trajs[i].zeta = NodeAt(trajs[i].spawn_stack).zeta
        /\ trajs[i].spawn_stack.zeta = Some(trajs[i].zeta)

\* a clone that was given a subtree is on the queue
C17_Witness ==
    /\ HopEventReturned
    /\ Len(ev.ret) >= 1
    /\ Len(trajs) - Len(ev.ret) + 1 \in Scheduled
    /\ 1 \in Scheduled
    /\ OnNode(trajs[1].spawn_stack)

\* the stack has its cursor on a threshold of its level that is not the
\* last one, and zeta is that threshold
OnScheduledNotLast(stack, zeta) ==
    /\ OnNode(stack)
    /\ zeta = NodeAt(stack).zeta
    /\ stack.izeta[1] + 1 < Len(stack.sample_stack[1])

\* the last call was hopper, with an accumulated probability above a
\* scheduled threshold that is not the last of its level
FiredBeforeLast ==
    /\ EvenHopper
    /\ OnScheduledNotLast(ev.pre.spawn_stack, ev.pre.zeta)
    /\ exceeds(Accumulated, ev.pre.zeta)

\* the last call was EvenSamplingTrajectory.hop_to_it, for a hop event
\* fired at a scheduled threshold that was not the last of its level: the
\* cursor of the producer is on the node after the one of the descriptors
SpawnedBeforeLast ==
    /\ ev.op = "hop_to_it"
    /\ ev.pre.cls = "EvenSamplingTrajectory"
    /\ OnNode(ev.pre.spawn_stack)
    /\ ev.pre.spawn_stack.izeta[1] >= 1
    /\ \A k \in 1..Len(ev.arg) :
          ev.arg[k].zeta
            = ev.pre.spawn_stack.sample_stack[1][ev.pre.spawn_stack.izeta[1]].zeta

\* C22: a hop event fired at a scheduled threshold that is not the last of
\* its level completes: hopper returns its descriptors without an
\* exception, hop_to_it constructs a clone for every descriptor without an
\* exception, and every clone of the event is on the queue.
C22_HopEventCompletes ==
    /\ FiredBeforeLast =>
          /\ ~ev.raised
          /\ Len(ev.ret) = ev.pre.nstates - 1
    /\ SpawnedBeforeLast =>
          /\ ~ev.raised
          /\ Len(ev.ret) = Len(ev.arg)
          /\ Len(queue) = Len(ev.q0) + Len(ev.arg)

\* hop_to_it was called for a hop event fired at the threshold before the
\* last one of a level of two or more thresholds
C22_Witness ==
    /\ SpawnedBeforeLast
    /\ Len(ev.arg) >= 1
    /\ ev.pre.spawn_stack.izeta[1] + 1 = Len(ev.pre.spawn_stack.sample_stack[1])

(***************************************************************************)
(* Properties of continue_simulating (SpecSH).                             *)
(***************************************************************************)
\* the last call was continue_simulating(), on a trajectory with a box
BoxChecked ==
    /\ ev.op = "continue_simulating"
    /\ ev.pre.duration.box_bounds # None

\* the step or the time budget was exceeded at the last call
BudgetExceeded ==
    \/ ev.pre.nsteps > ev.pre.duration.max_steps
    \/ RLt(ev.pre.duration.max_time, ev.pre.time)

\* the position at the last call was strictly inside the box
SeenInside ==
    \A i \in 1..Len(ev.pre.position) :
        /\ RLt(ev.pre.duration.box_bounds[1][1][i], ev.pre.position[i])
        /\ RLt(ev.pre.position[i], ev.pre.duration.box_bounds[1][2][i])

\* C4: with a box and within the budgets, continue_simulating() returns
\* True until the first check that sees the position strictly inside the
\* box, which latches the entered flag; once latched it returns True
\* exactly when the position is inside the box, and simulate() ends at the
\* first check that returns False; no call clears the flag.
C4_BoxLatch ==
    /\ (BoxChecked /\ ~BudgetExceeded) =>
          /\ IF ev.pre.duration.found_box
             THEN /\ ev.ret = SeenInside
                  /\ trajs[ev.id].duration.found_box
             ELSE /\ ev.ret = TRUE
                  /\ trajs[ev.id].duration.found_box = SeenInside
          /\ (trajs[ev.id].pc = "done") = ~ev.ret
    /\ (ev.id > 0 /\ ev.pre # << >> /\ ev.pre.duration.found_box) =>
          trajs[ev.id].duration.found_box

\* a trajectory that had entered the box is stopped, within its budgets, by
\* a check that sees it outside
C4_Witness ==
    /\ BoxChecked
    /\ ~BudgetExceeded
    /\ ev.pre.duration.found_box
    /\ ~SeenInside
    /\ ~ev.ret

\* C5: when the step count exceeds max_steps or the time exceeds max_time,
\* continue_simulating() returns False, with or without a box, whatever
\* the position and the entered flag, and leaves the entered flag as it was.
C5_BudgetStops ==
    (ev.op = "continue_simulating" /\ BudgetExceeded) =>
        /\ ev.ret = FALSE
        /\ trajs[ev.id].duration.found_box = ev.pre.duration.found_box
        /\ trajs[ev.id].pc = "done"

\* the budget is exceeded at a check that sees the position inside the box
C5_Witness ==
    /\ BoxChecked
    /\ BudgetExceeded
    /\ SeenInside
    /\ ~ev.ret

\* the last call was continue_simulating(), at the end of a step
StepEnded == ev.op = "continue_simulating"

\* the snapshots collected by a trajectory
Snapshots(i) == trajs[i].tracer.data

\* C20: after a step that does not end the run a snapshot is collected
\* exactly when the step count is a multiple of trace_every; for the step
\* that ends the run exactly one snapshot is collected, whatever the
\* cadence; the last snapshot of a run that has ended describes the final
\* state of the trajectory, and no time is recorded twice.
C20_TraceCadence ==
    /\ StepEnded =>
          Snapshots(ev.id) =
            IF ~ev.ret \/ ev.pre.nsteps % ev.pre.trace_every = 0
            THEN Append(ev.pre.tracer.data, snapshot(trajs[ev.id], elec))
            ELSE ev.pre.tracer.data
    /\ \A i \in 1..Len(trajs) :
          /\ trajs[i].pc = "done" =>
                /\ Snapshots(i) # << >>
                /\ Snapshots(i)[Len(Snapshots(i))] = snapshot(trajs[i], elec)
          /\ \A j \in 1..(Len(Snapshots(i)) - 1) :
                RLt(Snapshots(i)[j].time, Snapshots(i)[j + 1].time)

\* a clone, whose tracer is a copy of its producer's, has started
\* simulate() at a step count that is a multiple of trace_every, the step
\* of the producer's last snapshot
C20_Witness ==
    /\ ev.op = "simulate_start"
    /\ ev.id > 1
    /\ ev.pre.tracer.data # << >>
    /\ ev.pre.nsteps % ev.pre.trace_every = 0
    /\ ev.pre.tracer.data[Len(ev.pre.tracer.data)].time = ev.pre.time
    /\ Len(Snapshots(ev.id)) = Len(ev.pre.tracer.data) + 1

(***************************************************************************)
(* Properties of the stochastic hop (SpecSH).                              *)
(***************************************************************************)
\* the last call was TrajectorySH.hopper(probs), zeta drawn
StochasticHopper == ev.op = "hopper" /\ ev.pre.cls = "TrajectorySH"

\* the states whose cumulative probability exceeds the drawn zeta
Exceeding ==
    { i \in 0..(ev.pre.nstates - 1) : RLt(ev.arg[2], cumsum(ev.arg[1], i)) }

\* C7: for probabilities that are not negative and zero for the active
\* state, the stochastic hopper returns at most one descriptor; it returns
\* none exactly when no cumulative probability exceeds the drawn zeta, and
\* otherwise the least state whose cumulative probability exceeds zeta,
\* with weight 1.0, which is not the active state.
C7_StochasticHopper ==
    (/\ StochasticHopper
     /\ \A i \in 0..(ev.pre.nstates - 1) : RLe(RZero, ev.arg[1][i])
     /\ ev.arg[1][ev.pre.state] = RZero) =>
        /\ Len(ev.ret) <= 1
        /\ (ev.ret = << >>) = (Exceeding = { })
        /\ ev.ret # << >> =>
              /\ ev.ret[1].target \in Exceeding
              /\ \A j \in Exceeding : ev.ret[1].target <= j
              /\ ev.ret[1].weight = ROne
              /\ ev.ret[1].target # ev.pre.state
              /\ ev.ret[1].zeta = ev.arg[2]

\* the hopper has returned state 2, the only state whose cumulative
\* probability exceeds zeta: the least such state is not the first candidate
C7_Witness ==
    /\ StochasticHopper
    /\ ev.ret # << >>
    /\ ev.ret[1].target = 2
    /\ Cardinality(Exceeding) = 1

\* the last call was TrajectorySH.hop_to_it(hop_targets, electronics)
StochasticHop == ev.op = "hop_to_it" /\ ev.pre.cls = "TrajectorySH"

\* its target, the potential energy it needs and the kinetic energy that
\* the code finds available along the rescale direction
HopTarget == ev.arg[1].target
HopDelV ==
    RSub(ev.heap0[ev.pre.electronics].hamiltonian[HopTarget],
         ev.heap0[ev.pre.electronics].hamiltonian[ev.pre.state])
HopAvailable ==
    mode_kinetic_energy(ev.pre,
        ev.heap0[ev.pre.electronics].derivative_coupling[ev.pre.state][HopTarget])
HopForbidden == HopAvailable.nan \/ RLt(HopAvailable.val, HopDelV)

\* C8: hop_to_it with delV above the available kinetic energy leaves the
\* active state, velocity, position and density matrix and the recorded
\* hops as they were and raises nothing; with delV at most the available
\* kinetic energy it makes the target the active state and records exactly
\* one hop event (time, from, to, zeta, prob).
C8_ForbiddenHopSilent ==
    StochasticHop =>
        IF HopForbidden
        THEN /\ ~ev.raised
             /\ trajs[ev.id].state = ev.pre.state
             /\ trajs[ev.id].velocity = ev.pre.velocity
             /\ trajs[ev.id].position = ev.pre.position
             /\ trajs[ev.id].rho = ev.pre.rho
             /\ trajs[ev.id].tracer.hops = ev.pre.tracer.hops
        ELSE /\ ~ev.raised
             /\ trajs[ev.id].state = HopTarget
             /\ trajs[ev.id].tracer.hops =
                  Append(ev.pre.tracer.hops,
                         [ time |-> ev.pre.time, from |-> ev.pre.state,
                           to |-> HopTarget, zeta |-> ev.arg[1].zeta,
                           prob |-> ev.arg[1].prob ])

\* hop_to_it was called for a forbidden hop
C8_Witness == StochasticHop /\ HopForbidden

\* the total energy of the trajectory before and after the last call
EnergyBefore == total_energy(ev.pre, ev.heap0[ev.pre.electronics])
EnergyAfter == total_energy(trajs[ev.id], elec[trajs[ev.id].electronics])

\* C9: for every accepted hop, the total energy (kinetic energy plus the
\* potential of the active state) after hop_to_it is the total energy
\* before it: the kinetic energy changes by minus delV.
C9_HopConservesEnergy ==
    (StochasticHop /\ ~HopForbidden) =>
        /\ EnergyAfter = EnergyBefore
        /\ kinetic_energy(trajs[ev.id]) = RSub(kinetic_energy(ev.pre), HopDelV)

\* hop_to_it has returned from an accepted hop to a higher state
C9_Witness ==
    /\ StochasticHop
    /\ ~HopForbidden
    /\ ~ev.raised
    /\ RLt(RZero, HopDelV)
    /\ trajs[ev.id].velocity # ev.pre.velocity

\* the normalised rescale direction of the last hop and the discriminant
\* b^2 - 4ac of the quadratic rescale_component solves for it
HopDirection ==
    normalized(ev.heap0[ev.pre.electronics].derivative_coupling[ev.pre.state][HopTarget])
HopDiscriminant ==
    discriminant(einsum_mmm(M_inv(ev.pre.mass), HopDirection, HopDirection),
                 RMul(RInt(2), np_dot(ev.pre.velocity, HopDirection)),
                 rescale_c(RNeg(HopDelV)))

\* C19: whenever the energy test of hop_to_it passes, delV at most
\* mode_kinetic_energy(direction), the quadratic of rescale_component has
\* real roots: its discriminant is not negative, whatever the masses.
C19_AllowedHopHasRealRoots ==
    (StochasticHop /\ ~HopForbidden) => RLe(RZero, HopDiscriminant)

\* a hop to a higher state has passed the energy test on a trajectory
\* whose masses differ between the dimensions
C19_Witness ==
    /\ StochasticHop
    /\ ~HopForbidden
    /\ RLt(RZero, HopDelV)
    /\ ev.pre.mass[1] # ev.pre.mass[2]

(***************************************************************************)
(* Properties of SpawnStack.build_simple (SpecStack).                      *)
(***************************************************************************)
\* a level of the tree: n thresholds strictly increasing, evenly spaced,
\* in [0, 1], one dw, the dw summing to 1, and children as deep as asked
RECURSIVE LevelPartitions(_, _, _)
LevelPartitions(forest, n, depth) ==
    /\ Len(forest) = n
    /\ \A i \in 1..(n - 1) : RLt(forest[i].zeta, forest[i + 1].zeta)
    /\ \A i \in 1..(n - 1) :
          RSub(forest[i + 1].zeta, forest[i].zeta) = RSub(forest[2].zeta, forest[1].zeta)
    /\ \A i \in 1..n : RLe(RZero, forest[i].zeta) /\ RLe(forest[i].zeta, ROne)
    /\ \A i \in 1..n : forest[i].dw = forest[1].dw
    /\ RSum([ i \in 1..n |-> forest[i].dw ]) = ROne
    /\ \A i \in 1..n :
          IF depth = 1 THEN forest[i].children = None
          ELSE /\ forest[i].children # None
               /\ LevelPartitions(forest[i].children[1], n, depth - 1)

\* C10: every level of a stack built by build_simple(nsamples,
\* sample_depth, include_first), for both values of include_first, has
\* nsamples thresholds, strictly increasing, evenly spaced, in [0, 1], with
\* one dw whose sum over the level is 1; with sample_depth = 1 the nodes
\* have no children.
C10_BuildSimplePartitions ==
    ev.op = "build_simple" =>
        /\ ev.ret.sample_stack # None
        /\ LevelPartitions(ev.ret.sample_stack[1], ev.arg[1], ev.arg[2])
        /\ ev.ret.weight = ROne

\* build_simple(4, 1, include_first = False) has returned: dw is 1/4
C10_Witness ==
    /\ ev.op = "build_simple"
    /\ ev.arg = << 4, 1, FALSE >>
    /\ \A i \in 1..4 : ev.ret.sample_stack[1][i].dw = Rat(1, 4)

(***************************************************************************)
(* Properties of next_zeta and spawn (SpecStack).                          *)
(***************************************************************************)
\* the last call was spawn() with the cursor on a node
SpawnedOnNode == ev.op = "spawn" /\ OnNode(ev.pre)

\* the product of the dw of the nodes spawn() was called on, from the root
\* to stack k of the chain
RECURSIVE PathProduct(_)
PathProduct(k) ==
    IF k <= 1 THEN ROne
    ELSE RMul(PathProduct(k - 1),
              IF OnNode(stk[k - 1]) THEN NodeAt(stk[k - 1]).dw ELSE ROne)

\* C11: spawn() with the cursor on a node returns a new stack that wraps
\* the children of that node, weighs the caller's weight times the dw of
\* the node and has no cursor, and leaves the caller as it was; the weight
\* of every stack spawned from a built root of weight 1 is the product of
\* the dw along its path from the root.
C11_SpawnWeights ==
    /\ SpawnedOnNode =>
          /\ ~ev.raised
          /\ ev.ret.sample_stack = NodeAt(ev.pre).children
          /\ ev.ret.weight = RMul(ev.pre.weight, NodeAt(ev.pre).dw)
          /\ ev.ret.izeta = None
          /\ ev.ret.zeta = None
          /\ stk[Len(stk)] = ev.ret
          /\ stk[Len(stk) - 1] = ev.pre
    /\ \A k \in 1..Len(stk) : stk[k].weight = PathProduct(k)

\* a stack spawned two levels below the root, lighter than its parent
C11_Witness ==
    /\ SpawnedOnNode
    /\ Len(stk) = 3
    /\ OnNode(stk[1])
    /\ stk[3].weight = RMul(NodeAt(stk[1]).dw, NodeAt(stk[2]).dw)
    /\ RLt(stk[3].weight, stk[2].weight)

\* the last call was next_zeta() on a stack that holds a level of a tree
NextZetaOnTree == ev.op = "next_zeta" /\ ev.pre.sample_stack # None

\* the number of the last call of next_zeta on its stack
CallNumber == IF ev.pre.izeta = None THEN 1 ELSE ev.pre.izeta[1] + 2

\* the thresholds of the level smaller than z
Below(z) ==
    { j \in 1..Len(ev.pre.sample_stack[1]) : RLt(ev.pre.sample_stack[1][j].zeta, z) }

\* C12: on a stack that holds a level of n thresholds, call k of
\* next_zeta, k <= n, moves the cursor to k - 1 and returns the k-th
\* smallest threshold of the level, greater than the one returned before;
\* call n + 1 raises.
C12_NextZetaInOrder ==
    NextZetaOnTree =>
        IF CallNumber <= Len(ev.pre.sample_stack[1])
        THEN /\ ~ev.raised
             /\ stk[Len(stk)].izeta = Some(CallNumber - 1)
             /\ ev.ret # None
             /\ stk[Len(stk)].zeta = ev.ret
             /\ \E j \in 1..Len(ev.pre.sample_stack[1]) :
                   ev.pre.sample_stack[1][j].zeta = ev.ret[1]
             /\ Cardinality(Below(ev.ret[1])) = CallNumber - 1
             /\ CallNumber > 1 => RLt(ev.pre.zeta[1], ev.ret[1])
        ELSE ev.raised

\* the call after the last threshold of a level has raised
C12_Witness ==
    /\ NextZetaOnTree
    /\ CallNumber = Len(ev.pre.sample_stack[1]) + 1
    /\ CallNumber >= 3
    /\ ev.raised

\* the last call was spawn() with the cursor on a node without children
SpawnedAtLeaf == SpawnedOnNode /\ NodeAt(ev.pre).children = None

\* the last call was spawn() on a stack that holds no tree
SpawnedWithoutTree == ev.op = "spawn" /\ ~Truthy(ev.pre.sample_stack)

\* C18 as stated: spawn() with the cursor on a node that has no children
\* returns a stack with no tree and the weight of the caller.
C18_LeafSpawnKeepsWeight ==
    SpawnedAtLeaf =>
        /\ ~ev.raised
        /\ ev.ret.sample_stack = None
        /\ ev.ret.weight = ev.pre.weight

\* C18, amended: spawn() with the cursor on a node that has no children
\* returns a stack with no tree whose weight is the caller's weight times
\* the dw of that node; spawn() on a stack that holds no tree returns a
\* stack with no tree and the weight of the caller.
C18_SpawnAtDeepestLevel ==
    /\ SpawnedAtLeaf =>
          /\ ~ev.raised
          /\ ev.ret.sample_stack = None
          /\ ev.ret.weight = RMul(ev.pre.weight, NodeAt(ev.pre).dw)
    /\ SpawnedWithoutTree =>
          /\ ~ev.raised
          /\ ev.ret.sample_stack = None
          /\ ev.ret.weight = ev.pre.weight

\* spawn() was called on the stack without a tree that a spawn() at a leaf
\* of a tree of two levels returned
C18_Witness ==
    /\ SpawnedWithoutTree
    /\ Len(stk) = 4
    /\ OnNode(stk[2])
    /\ NodeAt(stk[2]).children = None
    /\ stk[3].weight = RMul(stk[2].weight, NodeAt(stk[2]).dw)
    /\ stk[4].weight = stk[3].weight

(***************************************************************************)
(* Properties of the constructor and of outcome() (SpecConfig).            *)
(***************************************************************************)
\* the last call was the constructor with an initial state it does not
\* recognize: a scalar other than "ground", or a matrix without state0
UnrecognizedInitialState ==
    /\ ev.op = "__init__"
    /\ \/ ev.arg[1].scalar /\ ev.arg[1].val # "ground"
       \/ ~ev.arg[1].scalar /\ ev.arg[2].state0 = None

\* C14: the constructor called with an initial state it does not recognize
\* raises and yields no trajectory object; outcome() raises for an outcome
\* type other than "state" and "populations" and returns a classification
\* for each of these two.
C14_ConfigurationErrorsRaise ==
    /\ UnrecognizedInitialState => (ev.raised /\ trajs = << >>)
    /\ ev.op = "outcome" =>
          IF ev.pre.outcome_type \in { "state", "populations" }
          THEN ~ev.raised /\ ev.ret # << >>
          ELSE ev.raised

\* the constructor was called with a scalar initial state other than
\* "ground"
C14_Witness ==
    /\ ev.op = "__init__"
    /\ ev.arg[1].scalar
    /\ ev.arg[1].val = "excited"

(***************************************************************************)
(* Properties of simulate() without a bounding box (SpecRun).              *)
(***************************************************************************)
\* simulate() has returned or raised
RunEnded == trajs[1].pc \in { "done", "error" }

\* the time of the first snapshot, collected before the first step: t0
RunT0 == Snapshots(1)[1].time

\* the previous_steps option: the trajectory was started with t0 = s * dt
RunPreviousSteps == RDiv(RunT0, trajs[1].dt)[1]

\* the loop iterations begun: each one appends the electronics object of
\* its position, after the one of the start of simulate()
RunIterations == Len(elec) - 1

\* the steps executed: the iterations that reached the clock
RunSteps ==
    IF trajs[1].pc \in { "advance", "done" } THEN RunIterations
    ELSE RunIterations - 1

\* the number of steps the step budget allows
RunBudget ==
    IF trajs[1].duration.max_steps + 1 - RunPreviousSteps > 1
    THEN trajs[1].duration.max_steps + 1 - RunPreviousSteps
    ELSE 1

\* C21: without a box continue_simulating() returns False exactly when a
\* budget is exceeded; every step executed adds 1 to the step count and dt
\* to the time, and the loop takes no step beyond max(1, max_steps + 1 - s),
\* so it ends; a simulate() that has ended has executed at least one step,
\* and, when its time is within the time budget, exactly
\* max(1, max_steps + 1 - s) steps, leaving a step count above max_steps.
C21_BudgetTermination ==
    /\ StepEnded => (ev.ret = ~BudgetExceeded)
    /\ trajs[1].pc # "new" =>
          /\ trajs[1].nsteps = RunPreviousSteps + RunSteps
          /\ trajs[1].time = RAdd(RunT0, RMul(RInt(RunSteps), trajs[1].dt))
          /\ RunSteps <= RunBudget
    /\ RunEnded =>
          /\ RunSteps >= 1
          /\ RLe(trajs[1].time, trajs[1].duration.max_time) =>
                /\ RunSteps = RunBudget
                /\ trajs[1].nsteps > trajs[1].duration.max_steps

\* a run continued from step 1 with max_steps = 2 has returned after two
\* steps, within its time budget
C21_Witness ==
    /\ trajs[1].pc = "done"
    /\ RunPreviousSteps = 1
    /\ trajs[1].duration.max_steps = 2
    /\ RLe(trajs[1].time, trajs[1].duration.max_time)
    /\ RunSteps = 2

=============================================================================
